---- MODULE Spec2Model ----
(***************************************************************************)
(* Model of src/index.js: the GET /predict handler, the session            *)
(* normaliser, the five prediction models and the ensemble aggregator.     *)
(*                                                                         *)
(* Numbers.  JavaScript numbers that the program uses as fractions are     *)
(* modelled as exact rationals <<n, d>> in lowest terms (d > 0), with      *)
(* <<0, 0>> standing for NaN.  Strings of pattern characters are           *)
(* sequences of "T" / "X".  A text produced by toFixed(2) is modelled by   *)
(* the integer number of hundredths it denotes.                            *)
(***************************************************************************)
EXTENDS Integers, Sequences, FiniteSets, TLC

\* ------------------------------------------------------------------ bounds

\* Longest session list the provider returns in the handler specification.
MaxLen == 5

\* How many sessions beyond the rolling window the window specification adds.
MaxExtra == 2

\* ------------------------------------------------------- program constants

\* sessions.slice(0,20) in model2Probability.
Window == 20

\* const n = 4 in model4NGram.
n == 4

\* minCount = 5, the default parameter of getRecentPatterns.
minCount == 5

\* for (let i = 0; i < 5; i++) in ensemblePrediction.
ExtraAI == 5

\* -------------------------------------------------------------- arithmetic

Min(a, b) == IF a < b THEN a ELSE b

Max(a, b) == IF a > b THEN a ELSE b

RECURSIVE GCD(_, _)
GCD(a, b) == IF b = 0 THEN a ELSE GCD(b, a % b)

NaN == <<0, 0>>

IsNaN(x) == x[2] = 0

\* The rational a/b in lowest terms (a >= 0, b > 0).
Norm(a, b) == LET g == GCD(a, b) IN <<a \div g, b \div g>>

\* A decimal literal given in hundredths: Dec(75) is 0.75.
Dec(h) == Norm(h, 100)

\* JavaScript a / b on counts.  Every division by zero in the program has a
\* zero numerator (a count out of an empty total), which is NaN.
Div(a, b) == IF b = 0 THEN NaN ELSE Norm(a, b)

\* x / y on fractions.
RDiv(x, y) ==
  IF IsNaN(x) \/ IsNaN(y) \/ y[1] = 0 THEN NaN
  ELSE Norm(x[1] * y[2], x[2] * y[1])

\* x + y; NaN is absorbing.
RAdd(x, y) ==
  IF IsNaN(x) \/ IsNaN(y) THEN NaN
  ELSE Norm(x[1] * y[2] + y[1] * x[2], x[2] * y[2])

\* x > y; every comparison with NaN is false.
RGt(x, y) == ~IsNaN(x) /\ ~IsNaN(y) /\ x[1] * y[2] > y[1] * x[2]

\* 1 - x for x in [0, 1].
ROneMinus(x) == IF IsNaN(x) THEN NaN ELSE Norm(x[2] - x[1], x[2])

\* Math.max(x, y): NaN if either is NaN.
RMax(x, y) ==
  IF IsNaN(x) \/ IsNaN(y) THEN NaN ELSE IF RGt(y, x) THEN y ELSE x

\* x || y with the fallback dropped: x whatever it is.
JsOrNoFallback(x, y) == x

\* x || y on numbers: y when x is falsy, and the falsy numbers are NaN and 0.
JsOr(x, y) == IF IsNaN(x) \/ x[1] = 0 THEN y ELSE x

\* The text "NaN" that toFixed gives for NaN; parseFloat of it compares false.
NaNText == 0 - 1

\* (x * 100).toFixed(2), as the number of hundredths the text denotes
\* (round half up).
ToFixed2Pct(x) ==
  IF IsNaN(x) THEN NaNText
  ELSE (2 * 10000 * x[1] + x[2]) \div (2 * x[2])

\* ----------------------------------------------------------------- strings

\* s.slice(a, b) with 0 <= a: elements a .. b-1 (0-based), clamped to s.
Slice(s, a, b) == SubSeq(s, a + 1, Min(b, Len(s)))

\* array.reverse()
Reverse(s) == [k \in 1..Len(s) |-> s[Len(s) + 1 - k]]

\* s.includes(sub), and an unanchored regex for a literal
Includes(s, sub) ==
  \E k \in 0..(Len(s) - Len(sub)) : SubSeq(s, k + 1, k + Len(sub)) = sub

\* /^(TX|XT)+$/.test(s)
TestAlt(s) ==
  /\ Len(s) > 0
  /\ Len(s) % 2 = 0
  /\ \A k \in 1..(Len(s) \div 2) :
       <<s[2 * k - 1], s[2 * k]>> \in {<<"T", "X">>, <<"X", "T">>}

\* s.match(/^([TX])\1*/)[0].length : the length of the run that starts s.
RECURSIVE RunLength(_)
RunLength(s) ==
  IF Len(s) <= 1 THEN Len(s)
  ELSE IF s[2] = s[1] THEN 1 + RunLength(Tail(s)) ELSE 1

\* ------------------------------------------------------- helper functions

\* Session outcomes as the provider labels them.
Results == {"TAI", "XIU"}

getPatternChar(result) == IF result = "TAI" THEN "T" ELSE "X"

\* sessions.map(s => getPatternChar(s.resultTruyenThong))
Chars(sessions) ==
  [k \in 1..Len(sessions) |-> getPatternChar(sessions[k].resultTruyenThong)]

\* sessions.filter(s => s.resultTruyenThong === 'TAI').length
TaiCount(sessions) ==
  Cardinality({k \in 1..Len(sessions) : sessions[k].resultTruyenThong = "TAI"})

getRecentPatterns(sessions) ==
  LET patterns == Reverse(Chars(sessions))
  IN  Slice(patterns, 0, Max(minCount, Len(patterns)))

calculateRatios(sessions) ==
  LET total    == Len(sessions)
      taiCount == TaiCount(sessions)
      xiuCount == total - taiCount
  IN  [Tai |-> ToFixed2Pct(Div(taiCount, total)),
       Xiu |-> ToFixed2Pct(Div(xiuCount, total))]

\* sessions.sort((a,b) => b.id - a.id): descending by id, stable.
RECURSIVE SortDesc(_)
SortDesc(s) ==
  IF Len(s) = 0 THEN << >>
  ELSE LET top == CHOOSE k \in 1..Len(s) :
                    /\ \A j \in 1..Len(s) : s[j].id <= s[k].id
                    /\ \A j \in 1..(k - 1) : s[j].id < s[k].id
       IN  <<s[top]>> \o SortDesc(SubSeq(s, 1, top - 1) \o SubSeq(s, top + 1, Len(s)))

\* ----------------------------------------------------------------- models

Vote(p, c, e) == [prediction |-> p, confidence |-> c, explain |-> e]

\* Model 1.  rnd is the outcome of Math.random() > 0.5.  The explanation
\* texts are abbreviated to the name of the rule that produced them.
model1PatternAnalysis(pattern, rnd) ==
  LET lastFew == Slice(pattern, 0, 5)
  IN  IF lastFew = <<"T","T","T","T","T">> \/ Slice(lastFew, 0, 4) = <<"T","T","T","T">>
        THEN Vote("T", Dec(80), "bet Tai")
      ELSE IF lastFew = <<"X","X","X","X","X">> \/ Slice(lastFew, 0, 4) = <<"X","X","X","X">>
        THEN Vote("X", Dec(80), "bet Xiu")
      ELSE IF TestAlt(lastFew)
        THEN Vote(IF lastFew[1] = "T" THEN "X" ELSE "T", Dec(70), "1-1")
      ELSE IF \/ Includes(Slice(pattern, 0, 8), <<"T","T","X","X">>)
              \/ Includes(Slice(pattern, 0, 8), <<"X","X","T","T">>)
        THEN Vote(IF Slice(lastFew, 0, 2) = <<"T","T">> THEN "X" ELSE "T", Dec(75), "2-2")
      ELSE IF Includes(pattern, <<"T","T","T"," ","X">>)
        THEN Vote("T", Dec(65), "3-1 Tai")
      ELSE IF Includes(pattern, <<"X","X","X"," ","T">>)
        THEN Vote("X", Dec(65), "3-1 Xiu")
      ELSE Vote(IF rnd THEN "T" ELSE "X", Dec(50), "random")

\* Model 2 without the window: the ratio over the whole list.
model2WholeHistory(sessions) ==
  LET taiCount == TaiCount(sessions)
      ratio    == Div(taiCount, Len(sessions))
  IN  IF RGt(ratio, Dec(70)) THEN Vote("X", Dec(75), "Tai >70%")
      ELSE IF RGt(Dec(30), ratio) THEN Vote("T", Dec(75), "Xiu >70%")
      ELSE Vote(IF RGt(ratio, Dec(50)) THEN "T" ELSE "X", Dec(60), "majority")

\* Model 2.
model2Probability(sessions) ==
  LET recent20 == Slice(sessions, 0, Window)
      taiCount == TaiCount(recent20)
      ratio    == Div(taiCount, Len(recent20))
  IN  IF RGt(ratio, Dec(70)) THEN Vote("X", Dec(75), "Tai >70%")
      ELSE IF RGt(Dec(30), ratio) THEN Vote("T", Dec(75), "Xiu >70%")
      ELSE Vote(IF RGt(ratio, Dec(50)) THEN "T" ELSE "X", Dec(60), "majority")

\* The table the loop of model3Markov fills: transitions[prev + curr] counts
\* the indices i >= 1 with sessions[i-1] = prev and sessions[i] = curr.
Transitions(sessions) ==
  [pc2 \in {"T", "X"} \X {"T", "X"} |->
     Cardinality({k \in 2..Len(sessions) :
        /\ getPatternChar(sessions[k - 1].resultTruyenThong) = pc2[1]
        /\ getPatternChar(sessions[k].resultTruyenThong) = pc2[2]})]

\* Model 3 (called with at least one session; see Model3).
model3Markov(sessions) ==
  LET transitions   == Transitions(sessions)
      last          == getPatternChar(sessions[1].resultTruyenThong)
      totalFromLast == transitions[<<last, "T">>] + transitions[<<last, "X">>]
      pT            == JsOr(Div(transitions[<<last, "T">>], totalFromLast), Dec(50))
  IN  Vote(IF RGt(pT, Dec(50)) THEN "T" ELSE "X",
           IF RGt(pT, Dec(50)) THEN pT ELSE ROneMinus(pT),
           "markov")

\* nextCounts of model4NGram after its loop.
NextCounts(pattern, sessions) ==
  LET history == Chars(sessions)
      lastN   == Slice(pattern, 0, n)
      hits    == {k \in 0..(Len(history) - n - 1) : Slice(history, k, k + n) = lastN}
  IN  [T |-> Cardinality({k \in hits : history[k + n + 1] = "T"}),
       X |-> Cardinality({k \in hits : history[k + n + 1] = "X"})]

\* Model 4.
model4NGram(pattern, sessions) ==
  LET nextCounts == NextCounts(pattern, sessions)
      total      == nextCounts.T + nextCounts.X
      pT         == Div(nextCounts.T, total)
  IN  IF total = 0 THEN Vote("T", Dec(50), "no match")
      ELSE Vote(IF RGt(pT, Dec(50)) THEN "T" ELSE "X", RMax(pT, ROneMinus(pT)), "ngram")

\* Model 5 (called with a non-empty pattern; see Model5).  parseFloat of the
\* ratio text compared with 60 is the comparison of its hundredths with 6000.
model5Heuristic(pattern, ratios) ==
  LET last   == pattern[1]
      streak == RunLength(pattern)
  IN  IF streak >= 4 THEN Vote(IF last = "T" THEN "X" ELSE "T", Dec(70), "streak break")
      ELSE IF ratios.Tai > 60 * 100 THEN Vote("X", Dec(65), "Tai ratio high")
      ELSE Vote(last, Dec(60), "trend")

\* --------------------------------------------------------------- ensemble

Zero == Norm(0, 1)

\* The confidences 0.6 + Math.random() * 0.2 the model draws: values of
\* [0.6, 0.8), its lowest included.
ExtraConfs == {Dec(60), Dec(70), Dec(79)}

\* votes[prediction] += confidence
AddVote(votes, prediction, confidence) ==
  [votes EXCEPT ![prediction] = RAdd(votes[prediction], confidence)]

\* votes.T >= votes.X ? 'TAI' : 'XIU': a tie resolved the other way.
FinalPredictionTieHigh(votes) == IF RGt(votes.X, votes.T) THEN "XIU" ELSE "TAI"

\* votes.T > votes.X ? 'TAI' : 'XIU'
FinalPrediction(votes) == IF RGt(votes.T, votes.X) THEN "TAI" ELSE "XIU"

\* (Math.max(votes.T, votes.X) / totalConfidence * 100).toFixed(2)
FinalConfidence(votes, totalConfidence) ==
  ToFixed2Pct(RDiv(RMax(votes.T, votes.X), totalConfidence))

\* ------------------------------------------------------------------ state

VARIABLES
  pc,               \* position in the handler of GET /predict
  fetched,          \* whether axios.get has returned a response
  sessions,         \* data.list, sorted in place by the handler
  patternStr,       \* const patternStr
  ratios,           \* const ratios
  models,           \* model1 .. model5, in the order they are computed
  votes,            \* votes of ensemblePrediction
  totalConfidence,  \* totalConfidence of ensemblePrediction
  i,                \* the loop index of ensemblePrediction's two loops
  result,           \* what ensemblePrediction returns
  response,         \* what the handler sends (status 0: nothing yet)
  calls             \* history: the functions called while serving the request

vars == <<pc, fetched, sessions, patternStr, ratios, models, votes,
          totalConfidence, i, result, response, calls>>

\* The orders in which the provider may deliver len sessions with the ids
\* 1..len: every arrangement of the ids.
Orders(len) == {f \in [1..len -> 1..len] : \A a, b \in 1..len : f[a] = f[b] => a = b}

\* data.list: the sessions with the given outcome per id, in the given order.
List(order, outcome) ==
  [k \in 1..Len(order) |-> [id |-> order[k], resultTruyenThong |-> outcome[order[k]]]]

NoRatios == [Tai |-> 0, Xiu |-> 0]

NoVotes == [T |-> Zero, X |-> Zero]

NoResult == [du_doan |-> "", do_tin_cay |-> 0]

NoResponse == [status |-> 0]

Init ==
  /\ pc = "idle"
  /\ fetched = FALSE
  /\ sessions = << >>
  /\ patternStr = << >>
  /\ ratios = NoRatios
  /\ models = << >>
  /\ votes = NoVotes
  /\ totalConfidence = Zero
  /\ i = 0
  /\ result = NoResult
  /\ response = NoResponse
  /\ calls = {}

\* ---------------------------------------------------------------- handler

\* A request arrives; the handler issues axios.get and awaits it.
Request ==
  /\ pc = "idle"
  /\ pc' = "await"
  /\ UNCHANGED <<fetched, sessions, patternStr, ratios, models, votes,
                 totalConfidence, i, result, response, calls>>

\* The provider answers with a list.
FetchOk ==
  /\ pc = "await"
  /\ \E len \in 0..MaxLen :
       \E order \in Orders(len), outcome \in [1..len -> Results] :
         sessions' = List(order, outcome)
  /\ fetched' = TRUE
  /\ pc' = "sort"
  /\ UNCHANGED <<patternStr, ratios, models, votes, totalConfidence, i,
                 result, response, calls>>

\* axios.get rejects: control passes to the catch block.
FetchFail ==
  /\ pc = "await"
  /\ pc' = "catch"
  /\ UNCHANGED <<fetched, sessions, patternStr, ratios, models, votes,
                 totalConfidence, i, result, response, calls>>

Sort ==
  /\ pc = "sort"
  /\ sessions' = SortDesc(sessions)
  /\ pc' = "check"
  /\ UNCHANGED <<fetched, patternStr, ratios, models, votes, totalConfidence,
                 i, result, response, calls>>

\* !sessions : false of every array, the empty one included.
IsEmptyFalsy(list) == FALSE

\* sessions.length === 0
IsEmpty(list) == Len(list) = 0

CheckEmpty ==
  /\ pc = "check"
  /\ IF IsEmpty(sessions)
       THEN /\ response' = [status |-> 200, error |-> "No sessions found"]
            /\ pc' = "done"
       ELSE /\ response' = response
            /\ pc' = "normalize"
  /\ UNCHANGED <<fetched, sessions, patternStr, ratios, models, votes,
                 totalConfidence, i, result, calls>>

Normalize ==
  /\ pc = "normalize"
  /\ patternStr' = getRecentPatterns(sessions)
  /\ ratios' = calculateRatios(sessions)
  /\ calls' = calls \cup {"getRecentPatterns", "calculateRatios"}
  /\ pc' = "model1"
  /\ UNCHANGED <<fetched, sessions, models, votes, totalConfidence, i, result,
                 response>>

Model1 ==
  /\ pc = "model1"
  /\ \E rnd \in BOOLEAN :
       models' = Append(models, model1PatternAnalysis(patternStr, rnd))
  /\ calls' = calls \cup {"model1PatternAnalysis"}
  /\ pc' = "model2"
  /\ UNCHANGED <<fetched, sessions, patternStr, ratios, votes, totalConfidence,
                 i, result, response>>

Model2 ==
  /\ pc = "model2"
  /\ models' = Append(models, model2Probability(sessions))
  /\ calls' = calls \cup {"model2Probability"}
  /\ pc' = "model3"
  /\ UNCHANGED <<fetched, sessions, patternStr, ratios, votes, totalConfidence,
                 i, result, response>>

\* sessions[0].resultTruyenThong throws a TypeError on an empty list.
Model3 ==
  /\ pc = "model3"
  /\ calls' = calls \cup {"model3Markov"}
  /\ IF Len(sessions) = 0
       THEN models' = models /\ pc' = "catch"
       ELSE models' = Append(models, model3Markov(sessions)) /\ pc' = "model4"
  /\ UNCHANGED <<fetched, sessions, patternStr, ratios, votes, totalConfidence,
                 i, result, response>>

Model4 ==
  /\ pc = "model4"
  /\ models' = Append(models, model4NGram(patternStr, sessions))
  /\ calls' = calls \cup {"model4NGram"}
  /\ pc' = "model5"
  /\ UNCHANGED <<fetched, sessions, patternStr, ratios, votes, totalConfidence,
                 i, result, response>>

\* pattern.match(...) is null for an empty pattern, and null[0] throws.
Model5 ==
  /\ pc = "model5"
  /\ calls' = calls \cup {"model5Heuristic"}
  /\ IF Len(patternStr) = 0
       THEN models' = models /\ pc' = "catch"
       ELSE /\ models' = Append(models, model5Heuristic(patternStr, ratios))
            /\ pc' = "forEach"
  /\ UNCHANGED <<fetched, sessions, patternStr, ratios, votes, totalConfidence,
                 i, result, response>>

\* One iteration of models.forEach in ensemblePrediction.
EnsembleModel ==
  /\ pc = "forEach"
  /\ i < Len(models)
  /\ LET m == models[i + 1]
     IN  /\ votes' = AddVote(votes, m.prediction, m.confidence)
         /\ totalConfidence' = RAdd(totalConfidence, m.confidence)
  /\ i' = i + 1
  /\ calls' = calls \cup {"ensemblePrediction"}
  /\ UNCHANGED <<pc, fetched, sessions, patternStr, ratios, models, result,
                 response>>

\* forEach is over; the for loop starts with i = 0.
EnsembleLoop ==
  /\ pc = "forEach"
  /\ i = Len(models)
  /\ i' = 0
  /\ pc' = "for"
  /\ UNCHANGED <<fetched, sessions, patternStr, ratios, models, votes,
                 totalConfidence, result, response, calls>>

\* One iteration of the for loop: a supplementary voter.
EnsembleExtra ==
  /\ pc = "for"
  /\ i < ExtraAI
  /\ \E avgPred \in {"T", "X"}, conf \in ExtraConfs :
       /\ votes' = AddVote(votes, avgPred, conf)
       /\ totalConfidence' = RAdd(totalConfidence, conf)
  /\ i' = i + 1
  /\ UNCHANGED <<pc, fetched, sessions, patternStr, ratios, models, result,
                 response, calls>>

EnsembleReturn ==
  /\ pc = "for"
  /\ i = ExtraAI
  /\ result' = [du_doan |-> FinalPrediction(votes),
                do_tin_cay |-> FinalConfidence(votes, totalConfidence)]
  /\ pc' = "respond"
  /\ UNCHANGED <<fetched, sessions, patternStr, ratios, models, votes,
                 totalConfidence, i, response, calls>>

\* res.json(output), with latest = sessions[0].
Respond ==
  /\ pc = "respond"
  /\ response' = [status       |-> 200,
                  session      |-> sessions[1].id,
                  result       |-> sessions[1].resultTruyenThong,
                  next_session |-> sessions[1].id + 1,
                  du_doan      |-> result.du_doan,
                  do_tin_cay   |-> result.do_tin_cay,
                  pattern      |-> patternStr,
                  ty_le        |-> ratios]
  /\ pc' = "done"
  /\ UNCHANGED <<fetched, sessions, patternStr, ratios, models, votes,
                 totalConfidence, i, result, calls>>

Catch ==
  /\ pc = "catch"
  /\ response' = [status |-> 500, error |-> "Failed to fetch or process data"]
  /\ pc' = "done"
  /\ UNCHANGED <<fetched, sessions, patternStr, ratios, models, votes,
                 totalConfidence, i, result, calls>>

\* The request is over; nothing of it is kept for the next one.
Finish ==
  /\ pc = "done"
  /\ pc' = "idle"
  /\ fetched' = FALSE
  /\ sessions' = << >>
  /\ patternStr' = << >>
  /\ ratios' = NoRatios
  /\ models' = << >>
  /\ votes' = NoVotes
  /\ totalConfidence' = Zero
  /\ i' = 0
  /\ result' = NoResult
  /\ response' = NoResponse
  /\ calls' = {}

Next ==
  \/ Request
  \/ FetchOk
  \/ FetchFail
  \/ Sort
  \/ CheckEmpty
  \/ Normalize
  \/ Model1
  \/ Model2
  \/ Model3
  \/ Model4
  \/ Model5
  \/ EnsembleModel
  \/ EnsembleLoop
  \/ EnsembleExtra
  \/ EnsembleReturn
  \/ Respond
  \/ Catch
  \/ Finish

Spec == Init /\ [][Next]_vars

\* ------------------------------------------- the rolling window on its own

\* Session lists longer than the rolling window: up to Window + MaxExtra
\* sessions with ids 1..Len whose outcomes, oldest first, form up to three
\* runs (first a times, then b times the other outcome, then c times first),
\* delivered oldest first or latest first.
LongInputs ==
  { [k \in 1..(a + b + c) |->
       LET ident == IF asc THEN k ELSE a + b + c + 1 - k
       IN  [id |-> ident,
            resultTruyenThong |->
              IF ident <= a \/ ident > a + b THEN first
              ELSE CHOOSE r \in Results : r # first]] :
      <<a, b, c, first, asc>> \in
        { t \in (0..(Window + MaxExtra)) \X (0..(Window + MaxExtra))
                  \X (0..(Window + MaxExtra)) \X Results \X BOOLEAN :
            t[1] + t[2] + t[3] \in 1..(Window + MaxExtra) } }

InitWindow ==
  /\ pc = "sort"
  /\ fetched = TRUE
  /\ sessions \in LongInputs
  /\ patternStr = << >>
  /\ ratios = NoRatios
  /\ models = << >>
  /\ votes = NoVotes
  /\ totalConfidence = Zero
  /\ i = 0
  /\ result = NoResult
  /\ response = NoResponse
  /\ calls = {}

\* model2Probability applied to the sorted list.
ApplyModel2 ==
  /\ pc = "check"
  /\ models' = <<model2Probability(sessions)>>
  /\ calls' = {"model2Probability"}
  /\ pc' = "voted"
  /\ UNCHANGED <<fetched, sessions, patternStr, ratios, votes, totalConfidence,
                 i, result, response>>

NextWindow == Sort \/ ApplyModel2

SpecWindow == InitWindow /\ [][NextWindow]_vars

\* ================================================================== claims

\* The sessions of the list as a set, and what the claims say of them in
\* terms of ids alone (not of positions in the sorted list).
SessionSet == {sessions[k] : k \in 1..Len(sessions)}

\* How many sessions are more recent than s.
Newer(s) == Cardinality({t \in SessionSet : t.id > s.id})

\* The k most recent sessions (all of them if there are fewer).
MostRecent(k) == {s \in SessionSet : Newer(s) < k}

\* The session that follows s in time.
Successors(s) ==
  {t \in SessionSet : t.id > s.id /\ \A u \in SessionSet : ~(s.id < u.id /\ u.id < t.id)}

Symbol(s) == IF s.resultTruyenThong = "TAI" THEN "T" ELSE "X"

Other(sym) == IF sym = "T" THEN "X" ELSE "T"

\* The handler has computed patternStr and ratios of a non-empty list.
Normalized ==
  pc \in {"model1", "model2", "model3", "model4", "model5", "forEach", "for", "respond"}

ValidVote(m) ==
  /\ m.prediction \in {"T", "X"}
  /\ ~IsNaN(m.confidence)
  /\ 0 <= m.confidence[1]
  /\ m.confidence[1] <= m.confidence[2]

\* C1: for a non-empty history the pattern has one character per session and
\* its first character is the symbol of the session with the largest id.
C1_PatternMostRecentFirst ==
  Normalized =>
    /\ Len(patternStr) = Len(sessions)
    /\ \A s \in MostRecent(1) : patternStr[1] = Symbol(s)

\* C2: for a non-empty history the handler never reaches its catch block,
\* every model's vote is T or X with a confidence in [0, 1], the Markov and
\* N-gram models fall back to their defaults when the history is too short
\* for them, and the response carries TAI or XIU with a confidence in
\* [0.00%, 100.00%].
C2_PredictTotal ==
  (fetched /\ Len(sessions) > 0) =>
    /\ pc # "catch"
    /\ \A k \in 1..Len(models) : ValidVote(models[k])
    /\ (Len(models) >= 3 /\ Len(sessions) = 1) =>
         (models[3].prediction = "X" /\ models[3].confidence = <<1, 2>>)
    /\ (Len(models) >= 4 /\ Len(sessions) <= n) =>
         (models[4].prediction = "T" /\ models[4].confidence = <<1, 2>>)
    /\ pc = "done" =>
         /\ response.status = 200
         /\ Len(models) = 5
         /\ {"du_doan", "do_tin_cay", "pattern", "ty_le"} \subseteq DOMAIN response
         /\ response.du_doan \in {"TAI", "XIU"}
         /\ response.do_tin_cay \in 0..10000

\* A single session has been answered with a prediction.
C2_Witness ==
  pc = "done" /\ fetched /\ Len(sessions) = 1 /\ response.status = 200

\* C3: when every transition in time (older -> next newer) out of the most
\* recent symbol leads to T, and there is one, the Markov model votes T with
\* confidence 1.
C3_MarkovChronological ==
  (Normalized /\ Len(models) >= 3) =>
    \A latest \in MostRecent(1) :
      LET from == {s \in SessionSet : Symbol(s) = Symbol(latest) /\ Successors(s) # {}}
      IN  (from # {} /\ \A s \in from : \A t \in Successors(s) : Symbol(t) = "T")
            => (models[3].prediction = "T" /\ models[3].confidence = <<1, 1>>)

\* Whether some 4-gram occurs at two places of p.
RepeatedGram(p) ==
  \E a \in 1..(Len(p) - n + 1), b \in 1..(Len(p) - n + 1) :
    a < b /\ SubSeq(p, a, a + n - 1) = SubSeq(p, b, b + n - 1)

\* C4: when no 4-gram occurs more than once in the history, the N-gram model
\* votes T with confidence 0.5.
C4_NGramDefault ==
  (Normalized /\ Len(models) >= 4 /\ ~RepeatedGram(patternStr)) =>
    (models[4].prediction = "T" /\ models[4].confidence = <<1, 2>>)

\* C5: when the four most recent sessions have the same outcome, the
\* Streak/Shape model votes that symbol with confidence 0.8; and the
\* sessions (5,HIGH) (4,HIGH) (3,HIGH) (2,HIGH) (1,LOW) give pattern TTTTX.
C5_StreakOfFour ==
  (Normalized /\ Len(models) >= 1) =>
    /\ \A sym \in {"T", "X"} :
         (Len(sessions) >= 4 /\ \A s \in MostRecent(4) : Symbol(s) = sym)
           => (models[1].prediction = sym /\ models[1].confidence = <<4, 5>>)
    /\ SessionSet = {[id |-> 5, resultTruyenThong |-> "TAI"],
                     [id |-> 4, resultTruyenThong |-> "TAI"],
                     [id |-> 3, resultTruyenThong |-> "TAI"],
                     [id |-> 2, resultTruyenThong |-> "TAI"],
                     [id |-> 1, resultTruyenThong |-> "XIU"]}
         => patternStr = <<"T", "T", "T", "T", "X">>

\* The sum of the confidences of the five model votes.
RECURSIVE SumConf(_)
SumConf(ms) ==
  IF Len(ms) = 0 THEN <<0, 1>> ELSE RAdd(ms[1].confidence, SumConf(Tail(ms)))

\* x <= y on fractions.
RLeq(x, y) == x[1] * y[2] <= y[1] * x[2]

\* C6: the aggregator keeps votes.T + votes.X equal to the total weight; when
\* it returns, the total is the five model confidences plus five confidences
\* of [0.6, 0.8), the prediction is TAI exactly if votes.T > votes.X (a tie
\* gives XIU), and the confidence text is max(votes.T, votes.X) / total * 100
\* rounded to two decimals.
C6_Aggregator ==
  /\ RAdd(votes.T, votes.X) = totalConfidence
  /\ pc = "respond" =>
       LET vT == votes.T[1] * votes.X[2]
           vX == votes.X[1] * votes.T[2]
           hi == IF vT >= vX THEN votes.T ELSE votes.X
           \* hi / total as one fraction a / b in lowest terms
           q  == Norm(hi[1] * totalConfidence[2], hi[2] * totalConfidence[1])
           a  == q[1]
           b  == q[2]
       IN  /\ RLeq(RAdd(SumConf(models), <<ExtraAI * 3, 5>>), totalConfidence)
           /\ ~RLeq(RAdd(SumConf(models), <<ExtraAI * 4, 5>>), totalConfidence)
           /\ (result.du_doan = "TAI") <=> (vT > vX)
           /\ (result.du_doan = "XIU") <=> (vT <= vX)
           /\ b * (2 * result.do_tin_cay - 1) <= 2 * 10000 * a
           /\ 2 * 10000 * a < b * (2 * result.do_tin_cay + 1)

\* The aggregator has returned on an exact tie.
C6_Witness ==
  /\ pc = "respond"
  /\ votes.T = votes.X
  /\ result.du_doan = "XIU"
  /\ result.do_tin_cay = 5000

\* C7: when the provider returns zero sessions, no normaliser, model or
\* aggregation step runs, and the response is an error without prediction,
\* confidence, pattern or ratios.
C7_EmptyHistory ==
  (fetched /\ Len(sessions) = 0) =>
    /\ calls = {}
    /\ models = << >>
    /\ votes = NoVotes
    /\ result = NoResult
    /\ pc \in {"sort", "check", "done"}
    /\ pc = "done" =>
         /\ "error" \in DOMAIN response
         /\ DOMAIN response \cap {"du_doan", "do_tin_cay", "pattern", "ty_le"} = {}

\* An empty list has been answered.
C7_Witness ==
  pc = "done" /\ fetched /\ Len(sessions) = 0 /\ response.status = 200

\* The rolling window by ids: its size and its number of HIGH sessions.
WindowSize == Cardinality(MostRecent(Window))

WindowHigh == Cardinality({s \in MostRecent(Window) : s.resultTruyenThong = "TAI"})

\* C8: with h HIGH sessions among the w = min(20, count) sessions of largest
\* id, the Rolling-Window vote is {X, 0.75} if h/w > 0.70, {T, 0.75} if
\* h/w < 0.30, and otherwise the window's majority symbol with 0.6.
C8_RollingWindow ==
  pc = "voted" =>
    LET h == WindowHigh
        w == WindowSize
        v == models[1]
    IN  /\ w = Min(Window, Len(sessions))
        /\ 10 * h > 7 * w => (v.prediction = "X" /\ v.confidence = <<3, 4>>)
        /\ 10 * h < 3 * w => (v.prediction = "T" /\ v.confidence = <<3, 4>>)
        /\ (10 * h <= 7 * w /\ 10 * h >= 3 * w) =>
             /\ v.confidence = <<3, 5>>
             /\ 2 * h > w => v.prediction = "T"
             /\ 2 * h < w => v.prediction = "X"

\* 15 HIGH among the 20 most recent of more than 20 sessions, where the whole
\* history is at most 70% HIGH, has been voted {X, 0.75}.
C8_Witness ==
  /\ pc = "voted"
  /\ Len(sessions) > Window
  /\ WindowHigh = 15
  /\ WindowSize = 20
  /\ 10 * TaiCount(sessions) <= 7 * Len(sessions)
  /\ models[1].prediction = "X"
  /\ models[1].confidence = <<3, 4>>

\* C9: when the first five characters of a pattern of length >= 5 strictly
\* alternate, the Streak/Shape model's alternation rule fires: the opposite
\* of the first character, with confidence 0.7.
C9_AlternationOfFive ==
  (Normalized /\ Len(models) >= 1 /\ Len(patternStr) >= 5
      /\ \A k \in 1..4 : patternStr[k] # patternStr[k + 1]) =>
    /\ models[1].prediction = Other(patternStr[1])
    /\ models[1].confidence = <<7, 10>>
    /\ models[1].explain = "1-1"

\* C10: with cT and cX the model's tallies of transitions from last to T and
\* to X, whenever cT + cX > 0 the Markov model uses p = cT / (cT + cX): it
\* votes T if p > 0.5 else X, with confidence max(p, 1 - p).
C10_MarkovFallbackOnlyOnZero ==
  (Normalized /\ Len(models) >= 3) =>
    LET last == getPatternChar(sessions[1].resultTruyenThong)
        cT   == Transitions(sessions)[<<last, "T">>]
        cX   == Transitions(sessions)[<<last, "X">>]
    IN  cT + cX > 0 =>
          /\ models[3].prediction = (IF cT > cX THEN "T" ELSE "X")
          /\ models[3].confidence = Norm(Max(cT, cX), cT + cX)

====
